---- MODULE Spec2Model ----
(***************************************************************************)
(* SOW-to-proposal: the extraction and normalization pipeline.             *)
(*                                                                         *)
(* A Python string is a sequence of one-character strings, so that         *)
(* str.lower(), slicing and concatenation are computed.  A decoded JSON    *)
(* value (equally: the Python object json.loads returns) is a tagged       *)
(* record; a dict is a function from its keys to values, an absent         *)
(* key being a key outside its DOMAIN.  The text the backend returns is    *)
(* represented by what json.loads makes of it: the value it decodes to,    *)
(* or the characters of a text that does not decode.                       *)
(***************************************************************************)
EXTENDS Integers, Sequences, FiniteSets, TLC

\* Longest raw list the backend is made to return for a list field or for
\* deliverables (the worked examples of length three are added to the sets).
MaxLen == 2

\* Document texts are taken with every length up to 2 * Margin, and with every
\* length within Margin of the truncation limit.
Margin == 10

(***************************************************************************)
(* String literals of the source.                                          *)
(***************************************************************************)
SENTINEL == <<"N", "/", "A">>
NA_LOWER == <<"n", "/", "a">>
NOT_DETAILED == <<"N", "o", "t", " ", "d", "e", "t", "a", "i", "l", "e", "d", " ", "b", "y",
    " ", "A", "I">>
NO_SOW_TEXT == <<"N", "o", " ", "S", "O", "W", " ", "t", "e", "x", "t", " ", "p", "r", "o",
    "v", "i", "d", "e", "d", " ", "f", "o", "r", " ", "e", "x", "t", "r", "a", "c", "t", "i",
    "o", "n", ".">>
PARSE_FAILED == <<"F", "a", "i", "l", "e", "d", " ", "t", "o", " ", "p", "a", "r", "s", "e",
    " ", "L", "L", "M", " ", "r", "e", "s", "p", "o", "n", "s", "e", " ", "a", "s", " ", "J",
    "S", "O", "N", ".", " ", "R", "a", "w", " ", "L", "L", "M", " ", "o", "u", "t", "p", "u",
    "t", ":", " ">>
UNEXPECTED == <<"A", "n", " ", "u", "n", "e", "x", "p", "e", "c", "t", "e", "d", " ", "e", "r",
    "r", "o", "r", " ", "o", "c", "c", "u", "r", "r", "e", "d", ":", " ">>
OPENAI == <<"o", "p", "e", "n", "a", "i">>
GEMINI == <<"g", "e", "m", "i", "n", "i">>
OPENAI_NOT_INIT == <<"O", "p", "e", "n", "A", "I", " ", "c", "l", "i", "e", "n", "t", " ", "n",
    "o", "t", " ", "i", "n", "i", "t", "i", "a", "l", "i", "z", "e", "d", ".", " ", "C", "a",
    "l", "l", " ", "i", "n", "i", "t", "i", "a", "l", "i", "z", "e", "_", "l", "l", "m", "_",
    "c", "l", "i", "e", "n", "t", "s", " ", "f", "i", "r", "s", "t", ".">>
GEMINI_NOT_INIT == <<"G", "e", "m", "i", "n", "i", " ", "m", "o", "d", "e", "l", " ", "n", "o",
    "t", " ", "i", "n", "i", "t", "i", "a", "l", "i", "z", "e", "d", ".", " ", "C", "a", "l",
    "l", " ", "i", "n", "i", "t", "i", "a", "l", "i", "z", "e", "_", "l", "l", "m", "_", "c",
    "l", "i", "e", "n", "t", "s", " ", "f", "i", "r", "s", "t", ".">>
LEGACY_OPENAI_NOT_INIT == <<"O", "p", "e", "n", "A", "I", " ", "c", "l", "i", "e", "n", "t",
    " ", "n", "o", "t", " ", "i", "n", "i", "t", "i", "a", "l", "i", "z", "e", "d", ".", " ",
    "C", "h", "e", "c", "k", " ", "A", "P", "I", " ", "k", "e", "y", ".">>
LEGACY_GEMINI_NOT_INIT == <<"G", "e", "m", "i", "n", "i", " ", "m", "o", "d", "e", "l", " ",
    "n", "o", "t", " ", "i", "n", "i", "t", "i", "a", "l", "i", "z", "e", "d", ".", " ", "C",
    "h", "e", "c", "k", " ", "A", "P", "I", " ", "k", "e", "y", ".">>
LLM_CHOICE_PRE == <<"L", "L", "M", " ", "c", "h", "o", "i", "c", "e", " ", "'">>
NOT_SUPPORTED_POST == <<"'", " ", "i", "s", " ", "n", "o", "t", " ", "s", "u", "p", "p", "o",
    "r", "t", "e", "d", ".">>
ERROR_PREFIX == <<"E", "r", "r", "o", "r", ":", " ">>
QUOTE == <<"'">>
NO_ATTRIBUTE == <<"'", " ", "o", "b", "j", "e", "c", "t", " ", "h", "a", "s", " ", "n", "o",
    " ", "a", "t", "t", "r", "i", "b", "u", "t", "e", " ", "'">>
ATTR_GET == <<"g", "e", "t">>
ATTR_LOWER == <<"l", "o", "w", "e", "r">>
TY_NONE == <<"N", "o", "n", "e", "T", "y", "p", "e">>
TY_BOOL == <<"b", "o", "o", "l">>
TY_INT == <<"i", "n", "t">>
TY_STR == <<"s", "t", "r">>
TY_LIST == <<"l", "i", "s", "t">>
TY_DICT == <<"d", "i", "c", "t">>
JSON_MUST_BE_STR == <<"t", "h", "e", " ", "J", "S", "O", "N", " ", "o", "b", "j", "e", "c",
    "t", " ", "m", "u", "s", "t", " ", "b", "e", " ", "s", "t", "r", ",", " ", "b", "y", "t",
    "e", "s", " ", "o", "r", " ", "b", "y", "t", "e", "a", "r", "r", "a", "y", ",", " ", "n",
    "o", "t", " ", "N", "o", "n", "e", "T", "y", "p", "e">>

ANALYSIS_REFUSAL == <<"C", "a", "n", "n", "o", "t", " ", "s", "u", "m", "m", "a", "r", "i",
    "z", "e", ":", " ", "I", "n", "v", "a", "l", "i", "d", " ", "o", "r", " ", "m", "i", "s",
    "s", "i", "n", "g", " ", "S", "O", "W", " ", "s", "t", "r", "u", "c", "t", "u", "r", "e",
    "d", " ", "d", "a", "t", "a", ".">>
PROPOSAL_REFUSAL == <<"C", "a", "n", "n", "o", "t", " ", "d", "r", "a", "f", "t", " ", "p",
    "r", "o", "p", "o", "s", "a", "l", ":", " ", "I", "n", "v", "a", "l", "i", "d", " ", "o",
    "r", " ", "m", "i", "s", "s", "i", "n", "g", " ", "S", "O", "W", " ", "s", "t", "r", "u",
    "c", "t", "u", "r", "e", "d", " ", "d", "a", "t", "a", ".">>
THE_PROJECT == <<"t", "h", "e", " ", "P", "r", "o", "j", "e", "c", "t">>
THE_CLIENT == <<"t", "h", "e", " ", "C", "l", "i", "e", "n", "t">>
OBJECTIVES_DEFAULT == <<"T", "o", " ", "b", "e", " ", "d", "e", "f", "i", "n", "e", "d", " ",
    "b", "a", "s", "e", "d", " ", "o", "n", " ", "c", "l", "i", "e", "n", "t", " ", "n", "e",
    "e", "d", "s", ".">>
SCOPE_DEFAULT == <<"D", "e", "t", "a", "i", "l", "e", "d", " ", "s", "c", "o", "p", "e", " ",
    "w", "i", "l", "l", " ", "b", "e", " ", "o", "u", "t", "l", "i", "n", "e", "d", " ", "u",
    "p", "o", "n", " ", "f", "u", "r", "t", "h", "e", "r", " ", "a", "n", "a", "l", "y", "s",
    "i", "s", ".">>
OUT_OF_SCOPE_DEFAULT == <<"A", "n", "y", " ", "i", "t", "e", "m", "s", " ", "n", "o", "t", " ",
    "e", "x", "p", "l", "i", "c", "i", "t", "l", "y", " ", "i", "n", "c", "l", "u", "d", "e",
    "d", " ", "i", "n", " ", "t", "h", "e", " ", "'", "S", "c", "o", "p", "e", " ", "o", "f",
    " ", "W", "o", "r", "k", "'", " ", "a", "r", "e", " ", "c", "o", "n", "s", "i", "d", "e",
    "r", "e", "d", " ", "o", "u", "t", " ", "o", "f", " ", "s", "c", "o", "p", "e", ".">>
DELIVERABLES_DEFAULT == <<"-", " ", "S", "p", "e", "c", "i", "f", "i", "c", " ", "d", "e", "l",
    "i", "v", "e", "r", "a", "b", "l", "e", "s", " ", "t", "o", " ", "b", "e", " ", "d", "e",
    "t", "a", "i", "l", "e", "d", ".">>
TECHNICAL_DEFAULT == <<"r", "e", "l", "e", "v", "a", "n", "t", " ", "t", "e", "c", "h", "n",
    "o", "l", "o", "g", "i", "e", "s", " ", "a", "n", "d", " ", "i", "n", "d", "u", "s", "t",
    "r", "y", " ", "b", "e", "s", "t", " ", "p", "r", "a", "c", "t", "i", "c", "e", "s">>
CONSTRAINTS_DEFAULT == <<"S", "t", "a", "n", "d", "a", "r", "d", " ", "p", "r", "o", "j", "e",
    "c", "t", " ", "c", "o", "n", "s", "t", "r", "a", "i", "n", "t", "s", " ", "a", "p", "p",
    "l", "y", ".">>
STAKEHOLDERS_DEFAULT == <<"k", "e", "y", " ", "c", "l", "i", "e", "n", "t", " ", "a", "n", "d",
    " ", "v", "e", "n", "d", "o", "r", " ", "p", "e", "r", "s", "o", "n", "n", "e", "l">>
TIMELINE_DEFAULT == <<"A", " ", "d", "e", "t", "a", "i", "l", "e", "d", " ", "p", "r", "o",
    "j", "e", "c", "t", " ", "t", "i", "m", "e", "l", "i", "n", "e", " ", "w", "i", "l", "l",
    " ", "b", "e", " ", "d", "e", "v", "e", "l", "o", "p", "e", "d", " ", "i", "n", " ", "c",
    "o", "l", "l", "a", "b", "o", "r", "a", "t", "i", "o", "n", " ", "w", "i", "t", "h", " ",
    "t", "h", "e", " ", "c", "l", "i", "e", "n", "t", ".">>
BOLD_OPEN == <<"-", " ", "*", "*">>
BOLD_CLOSE == <<"*", "*", ":", " ">>
COMMA_SPACE == <<",", " ">>
SPACE == <<" ">>
PY_NONE == <<"N", "o", "n", "e">>
PY_TRUE == <<"T", "r", "u", "e">>
PY_FALSE == <<"F", "a", "l", "s", "e">>
NEWLINE == <<"\n">>
BULLET == <<"\n", "-", " ">>
NOT_DETAILED_SUFFIX == BOLD_CLOSE \o NOT_DETAILED

\* response_content[:500], data_extraction_agent.py line 95
EXCERPT_LEN == 500

\* sow_text[:15000], data_extraction_agent.py line 14
TEXT_LIMIT == 15000

(***************************************************************************)
(* Strings the environment supplies (document text, backend output).      *)
(***************************************************************************)
NA_MIXED == <<"N", "/", "a">>
LLAMA == <<"l", "l", "a", "m", "a">>
T_SOW == <<"S", "O", "W">>
T_API == <<"B", "u", "i", "l", "d", " ", "A", "P", "I">>
T_DEPLOY == <<"D", "e", "p", "l", "o", "y">>
T_REPORT == <<"R", "e", "p", "o", "r", "t">>
T_FINAL == <<"F", "i", "n", "a", "l">>
T_ACME == <<"A", "c", "m", "e", " ", "R", "o", "l", "l", "o", "u", "t">>
T_PADDED == <<" ", "A", "c", "m", "e", " ">>
T_QUOTA == <<"q", "u", "o", "t", "a", " ", "e", "x", "c", "e", "e", "d", "e", "d">>
T_X == <<"X">>
T_Y == <<"Y">>
T_Z == <<"Z">>
T_BUDGET == <<"B", "u", "d", "g", "e", "t", " ", "c", "a", "p">>
T_GARBLED == <<"S", "o", "r", "r", "y", ",", " ", "I", " ", "c", "a", "n", "n", "o", "t">>

(***************************************************************************)
(* Python strings.                                                         *)
(***************************************************************************)
LowerChar(c) ==
    CASE c = "A" -> "a" [] c = "B" -> "b" [] c = "C" -> "c" [] c = "D" -> "d"
      [] c = "E" -> "e" [] c = "F" -> "f" [] c = "G" -> "g" [] c = "H" -> "h"
      [] c = "I" -> "i" [] c = "J" -> "j" [] c = "K" -> "k" [] c = "L" -> "l"
      [] c = "M" -> "m" [] c = "N" -> "n" [] c = "O" -> "o" [] c = "P" -> "p"
      [] c = "Q" -> "q" [] c = "R" -> "r" [] c = "S" -> "s" [] c = "T" -> "t"
      [] c = "U" -> "u" [] c = "V" -> "v" [] c = "W" -> "w" [] c = "X" -> "x"
      [] c = "Y" -> "y" [] c = "Z" -> "z" [] OTHER -> c

RECURSIVE lower(_)
lower(s) == IF s = <<>> THEN <<>> ELSE <<LowerChar(Head(s))>> \o lower(Tail(s))

\* Prefix that keeps the whole string
Prefix_whole(s, n) == s

\* s[:n]
Prefix(s, n) == IF Len(s) <= n THEN s ELSE SubSeq(s, 1, n)

\* sep.join(strs), strs a sequence of strings
RECURSIVE join(_, _)
join(sep, strs) ==
    IF strs = <<>> THEN <<>>
    ELSE IF Len(strs) = 1 THEN strs[1]
    ELSE strs[1] \o sep \o join(sep, Tail(strs))

DigitChar(n) ==
    CASE n = 0 -> "0" [] n = 1 -> "1" [] n = 2 -> "2" [] n = 3 -> "3" [] n = 4 -> "4"
      [] n = 5 -> "5" [] n = 6 -> "6" [] n = 7 -> "7" [] n = 8 -> "8" [] n = 9 -> "9"

\* str(n) for a natural number
RECURSIVE decimal(_)
decimal(n) == IF n < 10 THEN <<DigitChar(n)>> ELSE decimal(n \div 10) \o <<DigitChar(n % 10)>>

(***************************************************************************)
(* Decoded values.                                                         *)
(***************************************************************************)
\* One record shape for every value: t is the type, and the field of that type
\* holds the value (b: bool, n: number, s: characters, l: items, d: dict).
EmptyDict == << >>
JNull == [t |-> "null", b |-> FALSE, n |-> 0, s |-> <<>>, l |-> <<>>, d |-> EmptyDict]
JBool(b) == [JNull EXCEPT !.t = "bool", !.b = b]
JNum(n) == [JNull EXCEPT !.t = "num", !.n = n]
JStr(s) == [JNull EXCEPT !.t = "str", !.s = s]
JList(l) == [JNull EXCEPT !.t = "list", !.l = l]
JObj(d) == [JNull EXCEPT !.t = "obj", !.d = d]

isinstance_str(x) == x.t = "str"
isinstance_list(x) == x.t = "list"
isinstance_dict(x) == x.t = "obj"

\* bool(x): None, False, 0, "", [] and {} are falsy
truthy(x) ==
    CASE x.t = "null" -> FALSE
      [] x.t = "bool" -> x.b
      [] x.t = "num" -> x.n # 0
      [] x.t = "str" -> x.s # <<>>
      [] x.t = "list" -> x.l # <<>>
      [] x.t = "obj" -> DOMAIN x.d # {}

\* type(x).__name__
type_name(x) ==
    CASE x.t = "null" -> TY_NONE
      [] x.t = "bool" -> TY_BOOL
      [] x.t = "num" -> TY_INT
      [] x.t = "str" -> TY_STR
      [] x.t = "list" -> TY_LIST
      [] x.t = "obj" -> TY_DICT

\* str(AttributeError) for x.attr on a value without that attribute
attribute_error(x, attr) == QUOTE \o type_name(x) \o NO_ATTRIBUTE \o attr \o QUOTE

\* str(x), as an f-string field formats a value (scalars only)
py_str(x) ==
    CASE x.t = "null" -> PY_NONE
      [] x.t = "bool" -> IF x.b THEN PY_TRUE ELSE PY_FALSE
      [] x.t = "num" -> decimal(x.n)
      [] x.t = "str" -> x.s

dict_has(d, k) == k \in DOMAIN d
dict_get(d, k) == IF k \in DOMAIN d THEN d[k] ELSE JNull
dict_set(d, k, x) == [j \in DOMAIN d \cup {k} |-> IF j = k THEN x ELSE d[j]]
dict_del(d, k) == [j \in DOMAIN d \ {k} |-> d[j]]

(***************************************************************************)
(* The text of a backend response.                                         *)
(***************************************************************************)
JsonText(x) == [kind |-> "json", value |-> x, text |-> <<>>]
PlainText(s) == [kind |-> "text", value |-> JNull, text |-> s]
NoneContent == [kind |-> "none", value |-> JNull, text |-> <<>>]
NoCall == [kind |-> "nocall", value |-> JNull, text |-> <<>>]

json_dumps(x) == JsonText(x)

\* in place of a returned string: a ValueError with message m leaving the callee
RaisedValueError(m) == [kind |-> "ValueError", value |-> JNull, text |-> m]

\* A prompt is represented by the replacement fields of its f-string, in order:
\* the source line of the field, how its value is rendered ("str" for str(),
\* "json" for json.dumps) and the value.  The literal text between the fields is
\* not represented.
Slot(line, how, value) == [line |-> line, how |-> how, value |-> value]
NoRequest == <<>>

(***************************************************************************)
(* agents/llm_connector.py                                                 *)
(***************************************************************************)
\* What the provider's SDK does with one request: it returns a content, or
\* raises an exception whose str() is msg.
Returns(c) == [raises |-> FALSE, content |-> c, msg |-> <<>>]
Raises(m) == [raises |-> TRUE, content |-> NoneContent, msg |-> m]

\* the outcome in place when no request reaches the provider
NotReached == [raises |-> FALSE, content |-> NoCall, msg |-> <<>>]

\* the two globals after a call, and the exception it raised
Handles(client_openai, client_gemini, raised) ==
    [openai_client |-> client_openai, gemini_model |-> client_gemini, raised |-> raised]

\* initialize_llm_clients building one client at a time: the handle of the
\* provider not chosen is dropped
initialize_llm_clients_exclusive(choice, api_key, client_openai, client_gemini) ==
    IF choice = OPENAI /\ api_key THEN Handles(TRUE, FALSE, "none")
    ELSE IF choice = GEMINI /\ api_key THEN Handles(FALSE, TRUE, "none")
    ELSE Handles(client_openai, client_gemini, "ValueError")

\* initialize_llm_clients(llm_choice), api_key being whether os.getenv returns a
\* non-empty key for the chosen provider
initialize_llm_clients(choice, api_key, client_openai, client_gemini) ==
    IF choice = OPENAI
    THEN IF api_key THEN Handles(TRUE, client_gemini, "none")
         ELSE Handles(client_openai, client_gemini, "ValueError")
    ELSE IF choice = GEMINI
    THEN IF api_key THEN Handles(client_openai, TRUE, "none")
         ELSE Handles(client_openai, client_gemini, "ValueError")
    ELSE Handles(client_openai, client_gemini, "ValueError")

\* the except branch of _call_llm: the failure folded into a string
encoded_error(response_format, e) ==
    IF response_format = "json_object"
    THEN json_dumps(JObj([error |-> JStr(e)]))
    ELSE PlainText(ERROR_PREFIX \o e)

\* _call_llm as its docstring describes it: ValueError raised to the caller when
\* the choice is not supported or the client is not initialized
_call_llm_as_documented(response_format, choice, client_openai, client_gemini, provider) ==
    IF choice = OPENAI
    THEN IF ~client_openai THEN RaisedValueError(OPENAI_NOT_INIT)
         ELSE IF provider.raises THEN encoded_error(response_format, provider.msg)
         ELSE provider.content
    ELSE IF choice = GEMINI
    THEN IF ~client_gemini THEN RaisedValueError(GEMINI_NOT_INIT)
         ELSE IF provider.raises THEN encoded_error(response_format, provider.msg)
         ELSE provider.content
    ELSE RaisedValueError(LLM_CHOICE_PRE \o choice \o NOT_SUPPORTED_POST)

_call_llm(response_format, choice, client_openai, client_gemini, provider) ==
    IF choice = OPENAI
    THEN IF ~client_openai THEN encoded_error(response_format, OPENAI_NOT_INIT)
         ELSE IF provider.raises THEN encoded_error(response_format, provider.msg)
         ELSE provider.content
    ELSE IF choice = GEMINI
    THEN IF ~client_gemini THEN encoded_error(response_format, GEMINI_NOT_INIT)
         ELSE IF provider.raises THEN encoded_error(response_format, provider.msg)
         ELSE provider.content
    ELSE encoded_error(response_format, LLM_CHOICE_PRE \o choice \o NOT_SUPPORTED_POST)

\* whether _call_llm reaches the outbound request
reaches_provider(choice, client_openai, client_gemini) ==
    \/ choice = OPENAI /\ client_openai
    \/ choice = GEMINI /\ client_gemini

(***************************************************************************)
(* agents/data_extraction_agent.py                                         *)
(***************************************************************************)
LIST_FIELDS ==
    <<"objectives", "scope_of_work", "out_of_scope", "technical_requirements",
      "key_constraints", "stakeholders", "timeline_overview">>
STRING_FIELDS == <<"project_name", "client_name">>

\* cleaned_list comparing with "n/a" without lower()
RECURSIVE cleaned_list_exact_case(_)
cleaned_list_exact_case(items) ==
    IF items = <<>> THEN <<>>
    ELSE LET item == Head(items)
         IN  IF isinstance_str(item) /\ item.s # NA_LOWER
             THEN <<item>> \o cleaned_list_exact_case(Tail(items))
             ELSE cleaned_list_exact_case(Tail(items))

\* cleaned_list keeping one copy of a repeated item
RECURSIVE cleaned_list_deduplicated(_)
cleaned_list_deduplicated(items) ==
    IF items = <<>> THEN <<>>
    ELSE LET item == Head(items)
             rest == cleaned_list_deduplicated(Tail(items))
         IN  IF isinstance_str(item) /\ lower(item.s) # NA_LOWER
                 /\ \A i \in 1..Len(rest) : rest[i] # item
             THEN <<item>> \o rest
             ELSE rest

\* cleaned_list dropping the placeholder only: an item of another type is kept
RECURSIVE cleaned_list_any_type(_)
cleaned_list_any_type(items) ==
    IF items = <<>> THEN <<>>
    ELSE LET item == Head(items)
         IN  IF isinstance_str(item) /\ lower(item.s) = NA_LOWER
             THEN cleaned_list_any_type(Tail(items))
             ELSE <<item>> \o cleaned_list_any_type(Tail(items))

\* [item for item in field_value if isinstance(item, str) and item.lower() != "n/a"]
RECURSIVE cleaned_list(_)
cleaned_list(items) ==
    IF items = <<>> THEN <<>>
    ELSE LET item == Head(items)
         IN  IF isinstance_str(item) /\ lower(item.s) # NA_LOWER
             THEN <<item>> \o cleaned_list(Tail(items))
             ELSE cleaned_list(Tail(items))

\* ensure_list_of_strings wrapping a bare string into a one-element list
ensure_list_of_strings_wrapping(field_value) ==
    IF isinstance_list(field_value) THEN JList(cleaned_list(field_value.l))
    ELSE IF isinstance_str(field_value) /\ lower(field_value.s) = NA_LOWER THEN JList(<<>>)
    ELSE IF isinstance_str(field_value) THEN JList(<<field_value>>)
    ELSE JList(<<>>)

ensure_list_of_strings(field_value) ==
    IF isinstance_list(field_value) THEN JList(cleaned_list(field_value.l))
    ELSE IF isinstance_str(field_value) /\ lower(field_value.s) = NA_LOWER THEN JList(<<>>)
    ELSE JList(<<>>)

\* for key in [...]: parsed_data[key] = ensure_list_of_strings(parsed_data.get(key))
RECURSIVE clean_list_fields(_, _)
clean_list_fields(parsed_data, keys) ==
    IF keys = <<>> THEN parsed_data
    ELSE clean_list_fields(
             dict_set(parsed_data, Head(keys),
                      ensure_list_of_strings(dict_get(parsed_data, Head(keys)))),
             Tail(keys))

\* clean_deliverable_items comparing with "n/a" without lower()
RECURSIVE clean_deliverable_items_exact_case(_)
clean_deliverable_items_exact_case(items) ==
    IF items = <<>> THEN <<>>
    ELSE LET item == Head(items)
         IN  IF isinstance_dict(item) /\ dict_has(item.d, "name")
                                      /\ dict_has(item.d, "description")
             THEN <<item>> \o clean_deliverable_items_exact_case(Tail(items))
             ELSE IF isinstance_str(item) /\ item.s # NA_LOWER
             THEN <<JObj([name |-> item, description |-> JStr(NOT_DETAILED)])>>
                      \o clean_deliverable_items_exact_case(Tail(items))
             ELSE clean_deliverable_items_exact_case(Tail(items))

\* clean_deliverable_items without the branch that keeps an object
RECURSIVE clean_deliverable_items_strings_only(_)
clean_deliverable_items_strings_only(items) ==
    IF items = <<>> THEN <<>>
    ELSE LET item == Head(items)
         IN  IF isinstance_str(item) /\ lower(item.s) # NA_LOWER
             THEN <<JObj([name |-> item, description |-> JStr(NOT_DETAILED)])>>
                      \o clean_deliverable_items_strings_only(Tail(items))
             ELSE clean_deliverable_items_strings_only(Tail(items))

\* for item in raw_deliverables: ... cleaned_deliverables.append(...)
RECURSIVE clean_deliverable_items(_)
clean_deliverable_items(items) ==
    IF items = <<>> THEN <<>>
    ELSE LET item == Head(items)
         IN  IF isinstance_dict(item) /\ dict_has(item.d, "name")
                                      /\ dict_has(item.d, "description")
             THEN <<item>> \o clean_deliverable_items(Tail(items))
             ELSE IF isinstance_str(item) /\ lower(item.s) # NA_LOWER
             THEN <<JObj([name |-> item, description |-> JStr(NOT_DETAILED)])>>
                      \o clean_deliverable_items(Tail(items))
             ELSE clean_deliverable_items(Tail(items))

cleaned_deliverables(raw_deliverables) ==
    IF isinstance_list(raw_deliverables)
    THEN JList(clean_deliverable_items(raw_deliverables.l))
    ELSE JList(<<>>)

\* validate_string_field comparing with "n/a" without lower()
validate_string_field_exact_case(parsed_data, key) ==
    LET x == dict_get(parsed_data, key)
    IN  IF ~truthy(x) \/ (isinstance_str(x) /\ x.s = NA_LOWER)
        THEN dict_set(parsed_data, key, JStr(SENTINEL))
        ELSE parsed_data

\* if not parsed_data.get(key) or (isinstance(..., str) and ....lower() == "n/a")
validate_string_field(parsed_data, key) ==
    LET x == dict_get(parsed_data, key)
    IN  IF ~truthy(x) \/ (isinstance_str(x) /\ lower(x.s) = NA_LOWER)
        THEN dict_set(parsed_data, key, JStr(SENTINEL))
        ELSE parsed_data

RECURSIVE validate_string_fields(_, _)
validate_string_fields(parsed_data, keys) ==
    IF keys = <<>> THEN parsed_data
    ELSE validate_string_fields(validate_string_field(parsed_data, Head(keys)), Tail(keys))

\* post_deserialization_cleanup returning a fresh dict of the ten schema fields
\* instead of the decoded dict updated in place
post_deserialization_cleanup_fresh(parsed_data) ==
    LET lists == clean_list_fields(parsed_data, LIST_FIELDS)
        deliv == dict_set(lists, "deliverables",
                          cleaned_deliverables(dict_get(lists, "deliverables")))
        whole == validate_string_fields(deliv, STRING_FIELDS)
    IN  [k \in {LIST_FIELDS[i] : i \in 1..Len(LIST_FIELDS)}
               \cup {"deliverables", "project_name", "client_name"} |-> whole[k]]

\* the body of the try block once json.loads has returned a dict
post_deserialization_cleanup(parsed_data) ==
    LET lists == clean_list_fields(parsed_data, LIST_FIELDS)
        deliv == dict_set(lists, "deliverables",
                          cleaned_deliverables(dict_get(lists, "deliverables")))
    IN  validate_string_fields(deliv, STRING_FIELDS)

error_result(message) == [error |-> JStr(message)]

\* the exception the body of the try block raises on a response, "none" if it
\* runs to its return: json.loads(None) is a TypeError, text that does not decode
\* a JSONDecodeError, and parsed_data.get on a value that is not a dict an
\* AttributeError
raised_in_try(response_content) ==
    IF response_content.kind = "none" THEN "TypeError"
    ELSE IF response_content.kind = "text" THEN "JSONDecodeError"
    ELSE IF ~isinstance_dict(response_content.value) THEN "AttributeError"
    ELSE "none"

\* str(e) of the exception of raised_in_try that is not a JSONDecodeError
unexpected_message(response_content) ==
    IF response_content.kind = "none" THEN JSON_MUST_BE_STR
    ELSE attribute_error(response_content.value, ATTR_GET)

\* the except clauses with only "except json.JSONDecodeError"
except_clause_decode_only(e) == IF e = "JSONDecodeError" THEN "decode" ELSE "unhandled"

\* the except clause an exception raised in the try block lands in:
\* "except json.JSONDecodeError" (line 93), then "except Exception" (line 96)
except_clause(e) ==
    IF e = "JSONDecodeError" THEN "decode"
    ELSE IF e \in {"TypeError", "AttributeError", "ValueError"} THEN "unexpected"
    ELSE "unhandled"

\* lines 57-98: json.loads, the cleanup, and the two except branches
parse_response(response_content) ==
    LET e == raised_in_try(response_content)
    IN  IF e = "none" THEN post_deserialization_cleanup(response_content.value.d)
        ELSE IF except_clause(e) = "decode"
        THEN error_result(PARSE_FAILED \o Prefix(response_content.text, EXCERPT_LEN))
        ELSE error_result(UNEXPECTED \o unexpected_message(response_content))

\* sow_text[:15000] without the limit
sow_text_unlimited(sow_text) == sow_text.s

\* sow_text_limited = sow_text[:15000]
sow_text_limited(sow_text) == Prefix(sow_text.s, TEXT_LIMIT)

\* extraction_response that makes the call whatever the text is
extraction_response_unguarded(text, choice, client_openai, client_gemini, provider) ==
    _call_llm("json_object", choice, client_openai, client_gemini, provider)

\* the _call_llm call of data_extraction_agent_run (no call on empty text)
extraction_response(text, choice, client_openai, client_gemini, provider) ==
    IF ~truthy(text) THEN NoCall
    ELSE _call_llm("json_object", choice, client_openai, client_gemini, provider)

\* the user prompt of lines 17-50, handed to _call_llm
extraction_request(text) ==
    IF ~truthy(text) THEN NoRequest
    ELSE <<Slot(33, "str", JStr(sow_text_limited(text)))>>

\* the exception that leaves data_extraction_agent_run, "none" if it returns: the
\* call of line 56 stands outside the try block
extraction_exception(text, response_content) ==
    IF ~truthy(text) THEN "none"
    ELSE IF response_content.kind = "ValueError" THEN "ValueError"
    ELSE LET e == raised_in_try(response_content)
         IN  IF e # "none" /\ except_clause(e) = "unhandled" THEN e ELSE "none"

data_extraction_agent_run(text, choice, client_openai, client_gemini, provider) ==
    IF ~truthy(text) THEN error_result(NO_SOW_TEXT)
    ELSE parse_response(
             extraction_response(text, choice, client_openai, client_gemini, provider))

\* the check the callers apply to an extraction result (app.py line 347, and the
\* generators' guards): "not result or result.get('error')"
is_failed_result(result) == DOMAIN result = {} \/ truthy(dict_get(result, "error"))

(***************************************************************************)
(* agents/analysis_agent.py and agents/proposal_generation_agent.py.  The  *)
(* document handed to a generator is None or a dict.                       *)
(***************************************************************************)
\* if not sow_structured_data or sow_structured_data.get("error")
analysis_guard(data) == ~truthy(data) \/ truthy(dict_get(data.d, "error"))

analysis_request(data) ==
    IF analysis_guard(data) THEN NoRequest ELSE <<Slot(26, "json", data)>>

\* the _call_llm call of analysis_agent_run
analysis_response(data, choice, client_openai, client_gemini, provider) ==
    IF analysis_guard(data) THEN NoCall
    ELSE _call_llm("text", choice, client_openai, client_gemini, provider)

analysis_agent_run(data, choice, client_openai, client_gemini, provider) ==
    IF analysis_guard(data) THEN PlainText(ANALYSIS_REFUSAL)
    ELSE analysis_response(data, choice, client_openai, client_gemini, provider)

\* the caller's document once analysis_agent_run has returned: the function
\* reads sow_structured_data (get, json.dumps) and assigns to none of its keys
analysis_document_after(data) == data

\* if not sow_structured_data or sow_structured_data.get("error")
proposal_guard(data) == ~truthy(data) \/ truthy(dict_get(data.d, "error"))

\* d.get(k, default): the default stands in for an absent key only
dict_get_default(d, k, default) == IF k \in DOMAIN d THEN d[k] ELSE default

\* what iterating x yields: the items of a list, the characters of a string
items_of(x) ==
    IF isinstance_str(x) THEN [i \in 1..Len(x.s) |-> JStr(<<x.s[i]>>)] ELSE x.l

\* the strings str.join draws from x
strings_of(x) == [i \in 1..Len(items_of(x)) |-> items_of(x)[i].s]

\* sep.join(x) raises TypeError: x is not iterable, or one of its items is not a
\* string (a dict, whose keys join would take, is not among the documents)
join_raises(x) ==
    \/ x.t \in {"num", "bool"}
    \/ isinstance_list(x) /\ \E i \in 1..Len(x.l) : ~isinstance_str(x.l[i])

_format_list_for_prompt(items, default_message) ==
    IF ~truthy(items) THEN default_message
    ELSE BULLET \o join(BULLET, strings_of(items))

\* sep.join(x) if x else default
joined_or_default(sep, x, default) ==
    IF truthy(x) THEN join(sep, strings_of(x)) ELSE default

\* for d in sow_structured_data["deliverables"]: deliverablesBuilder.append(...)
RECURSIVE deliverablesBuilder(_)
deliverablesBuilder(items) ==
    IF items = <<>> THEN <<>>
    ELSE LET d == Head(items)
         IN  IF isinstance_dict(d) /\ dict_has(d.d, "name") /\ dict_has(d.d, "description")
             THEN <<BOLD_OPEN \o py_str(d.d["name"]) \o BOLD_CLOSE
                        \o py_str(d.d["description"])>>
                      \o deliverablesBuilder(Tail(items))
             ELSE IF isinstance_str(d)
             THEN <<BOLD_OPEN \o d.s \o NOT_DETAILED_SUFFIX>>
                      \o deliverablesBuilder(Tail(items))
             ELSE deliverablesBuilder(Tail(items))

\* lines 29-36
deliverables_fragment(x) ==
    LET built == IF truthy(x) THEN deliverablesBuilder(items_of(x)) ELSE <<>>
    IN  IF built # <<>> THEN NEWLINE \o join(NEWLINE, built) ELSE DELIVERABLES_DEFAULT

\* lines 25-47: the fragment rendered for each list field
proposal_fragments(d) ==
    [objectives |-> _format_list_for_prompt(dict_get(d, "objectives"), OBJECTIVES_DEFAULT),
     scope_of_work |-> _format_list_for_prompt(dict_get(d, "scope_of_work"), SCOPE_DEFAULT),
     out_of_scope |->
         _format_list_for_prompt(dict_get(d, "out_of_scope"), OUT_OF_SCOPE_DEFAULT),
     deliverables |-> deliverables_fragment(dict_get(d, "deliverables")),
     technical_requirements |->
         joined_or_default(COMMA_SPACE, dict_get(d, "technical_requirements"),
                           TECHNICAL_DEFAULT),
     key_constraints |->
         _format_list_for_prompt(dict_get(d, "key_constraints"), CONSTRAINTS_DEFAULT),
     stakeholders |->
         joined_or_default(COMMA_SPACE, dict_get(d, "stakeholders"), STAKEHOLDERS_DEFAULT),
     timeline_overview |->
         joined_or_default(SPACE, dict_get(d, "timeline_overview"), TIMELINE_DEFAULT)]

\* the exception lines 25-47 raise on a document, "none" if they run through
proposal_fragments_raise(d) ==
    IF \/ \E k \in {"objectives", "scope_of_work", "out_of_scope", "technical_requirements",
                    "key_constraints", "stakeholders", "timeline_overview"} :
              truthy(dict_get(d, k)) /\ join_raises(dict_get(d, k))
       \/ truthy(dict_get(d, "deliverables"))
              /\ dict_get(d, "deliverables").t \in {"num", "bool"}
    THEN "TypeError"
    ELSE "none"

\* user_prompt, lines 51-102
proposal_user_prompt(d) ==
    LET f == proposal_fragments(d)
        projectName == dict_get_default(d, "project_name", JStr(THE_PROJECT))
        clientName == dict_get_default(d, "client_name", JStr(THE_CLIENT))
    IN  <<Slot(52, "str", projectName), Slot(52, "str", clientName),
          Slot(58, "json", JObj(d)),
          Slot(61, "str", projectName),
          Slot(64, "str", clientName), Slot(64, "str", projectName),
          Slot(67, "str", clientName), Slot(67, "str", projectName),
          Slot(69, "str", JStr(f.objectives)),
          Slot(73, "str", JStr(f.technical_requirements)),
          Slot(77, "str", JStr(f.scope_of_work)),
          Slot(81, "str", JStr(f.out_of_scope)),
          Slot(85, "str", JStr(f.deliverables)),
          Slot(92, "str", JStr(f.timeline_overview)),
          Slot(95, "str", JStr(f.stakeholders)),
          Slot(101, "str", clientName), Slot(101, "str", projectName)>>

proposal_request(data) ==
    IF proposal_guard(data) \/ proposal_fragments_raise(data.d) # "none" THEN NoRequest
    ELSE proposal_user_prompt(data.d)

\* the _call_llm call of proposal_generation_agent_run
proposal_response(data, choice, client_openai, client_gemini, provider) ==
    IF proposal_guard(data) \/ proposal_fragments_raise(data.d) # "none" THEN NoCall
    ELSE _call_llm("text", choice, client_openai, client_gemini, provider)

proposal_generation_agent_run(data, choice, client_openai, client_gemini, provider) ==
    IF proposal_guard(data) THEN PlainText(PROPOSAL_REFUSAL)
    ELSE proposal_response(data, choice, client_openai, client_gemini, provider)

\* proposal_generation_agent_run filling the defaults in with setdefault
proposal_document_after_setdefault(data) ==
    IF proposal_guard(data) THEN data
    ELSE JObj(dict_set(dict_set(data.d, "project_name",
                                dict_get_default(data.d, "project_name", JStr(THE_PROJECT))),
                       "client_name",
                       dict_get_default(data.d, "client_name", JStr(THE_CLIENT))))

\* the caller's document once proposal_generation_agent_run has returned or
\* raised: the function reads sow_structured_data (get, iteration, json.dumps)
\* and assigns to none of its keys
proposal_document_after(data) == data

\* the exception that leaves proposal_generation_agent_run, "none" if it returns
proposal_exception(data) ==
    IF proposal_guard(data) THEN "none" ELSE proposal_fragments_raise(data.d)

(***************************************************************************)
(* llm_agents.py: the single-file variant of the same agents.  Its list    *)
(* and deliverables cleanup is textually the one above; its _call_llm and  *)
(* its string-field validation differ.  Its data_extraction_agent_run      *)
(* builds the prompt with an f-string in which the example of line 110,    *)
(* [{"name": "Final Report", "description": ...}], stands in single        *)
(* braces: Python formats the string "name" with the rest as its format    *)
(* specifier and raises ValueError, before the try block and before any    *)
(* call of the backend.                                                    *)
(***************************************************************************)
\* the outcome of a call: the value returned, or the exception raised to the caller
Returned(x) == [exception |-> "none", value |-> x]
Raised(e) == [exception |-> e, value |-> EmptyDict]

llm_agents_call_llm(response_format, choice, client_openai, client_gemini, provider) ==
    IF choice = OPENAI
    THEN IF ~client_openai THEN encoded_error(response_format, LEGACY_OPENAI_NOT_INIT)
         ELSE IF provider.raises THEN encoded_error(response_format, provider.msg)
         ELSE provider.content
    ELSE IF choice = GEMINI
    THEN IF ~client_gemini THEN encoded_error(response_format, LEGACY_GEMINI_NOT_INIT)
         ELSE IF provider.raises THEN encoded_error(response_format, provider.msg)
         ELSE provider.content
    ELSE encoded_error(response_format, LLM_CHOICE_PRE \o choice \o NOT_SUPPORTED_POST)

\* "not parsed_data.get(k) or parsed_data.get(k).lower() == 'n/a'" calls .lower()
\* on whatever truthy value the key holds
llm_agents_lower_raises(parsed_data, key) ==
    LET x == dict_get(parsed_data, key) IN truthy(x) /\ ~isinstance_str(x)

llm_agents_validate_string_field(parsed_data, key) ==
    LET x == dict_get(parsed_data, key)
    IN  IF ~truthy(x) \/ lower(x.s) = NA_LOWER
        THEN dict_set(parsed_data, key, JStr(SENTINEL))
        ELSE parsed_data

llm_agents_cleanup(parsed_data) ==
    LET lists == clean_list_fields(parsed_data, LIST_FIELDS)
        deliv == dict_set(lists, "deliverables",
                          cleaned_deliverables(dict_get(lists, "deliverables")))
    IN  IF llm_agents_lower_raises(deliv, "project_name")
        THEN error_result(UNEXPECTED \o
                 attribute_error(dict_get(deliv, "project_name"), ATTR_LOWER))
        ELSE LET named == llm_agents_validate_string_field(deliv, "project_name")
             IN  IF llm_agents_lower_raises(named, "client_name")
                 THEN error_result(UNEXPECTED \o
                          attribute_error(dict_get(named, "client_name"), ATTR_LOWER))
                 ELSE llm_agents_validate_string_field(named, "client_name")

llm_agents_parse_response(response_content) ==
    IF response_content.kind = "none"
    THEN error_result(UNEXPECTED \o JSON_MUST_BE_STR)
    ELSE IF response_content.kind = "text"
    THEN error_result(PARSE_FAILED \o Prefix(response_content.text, EXCERPT_LEN))
    ELSE IF ~isinstance_dict(response_content.value)
    THEN error_result(UNEXPECTED \o attribute_error(response_content.value, ATTR_GET))
    ELSE llm_agents_cleanup(response_content.value.d)

\* user_prompt = f"""...""", lines 89-118: format("name", ' "Final Report", ...')
\* is an invalid format specifier for a str, whatever the document text
llm_agents_user_prompt_raises == TRUE

llm_agents_extraction_response(text, choice, client_openai, client_gemini, provider) ==
    IF ~truthy(text) \/ llm_agents_user_prompt_raises THEN NoCall
    ELSE llm_agents_call_llm("json_object", choice, client_openai, client_gemini, provider)

llm_agents_data_extraction_agent_run(text, choice, client_openai, client_gemini, provider) ==
    IF ~truthy(text) THEN Returned(error_result(NO_SOW_TEXT))
    ELSE IF llm_agents_user_prompt_raises THEN Raised("ValueError")
    ELSE Returned(llm_agents_parse_response(
             llm_agents_extraction_response(text, choice, client_openai, client_gemini,
                                            provider)))

\* analysis_agent_run of llm_agents.py, lines 173-202
llm_agents_analysis_guard(data) == ~truthy(data) \/ truthy(dict_get(data.d, "error"))

llm_agents_analysis_request(data) ==
    IF llm_agents_analysis_guard(data) THEN NoRequest ELSE <<Slot(192, "json", data)>>

llm_agents_analysis_response(data, choice, client_openai, client_gemini, provider) ==
    IF llm_agents_analysis_guard(data) THEN NoCall
    ELSE llm_agents_call_llm("text", choice, client_openai, client_gemini, provider)

llm_agents_analysis_agent_run(data, choice, client_openai, client_gemini, provider) ==
    IF llm_agents_analysis_guard(data) THEN PlainText(ANALYSIS_REFUSAL)
    ELSE llm_agents_analysis_response(data, choice, client_openai, client_gemini, provider)

\* proposal_generation_agent_run of llm_agents.py, lines 206-302; its lines
\* 213-238 are textually lines 22-47 of agents/proposal_generation_agent.py
llm_agents_proposal_guard(data) == ~truthy(data) \/ truthy(dict_get(data.d, "error"))

\* user_prompt, lines 242-296
llm_agents_proposal_user_prompt(d) ==
    LET f == proposal_fragments(d)
        projectName == dict_get_default(d, "project_name", JStr(THE_PROJECT))
        clientName == dict_get_default(d, "client_name", JStr(THE_CLIENT))
    IN  <<Slot(243, "str", projectName), Slot(243, "str", clientName),
          Slot(249, "json", JObj(d)),
          Slot(252, "str", projectName),
          Slot(255, "str", clientName), Slot(255, "str", projectName),
          Slot(258, "str", clientName), Slot(258, "str", projectName),
          Slot(260, "str", JStr(f.objectives)),
          Slot(265, "str", JStr(f.technical_requirements)),
          Slot(270, "str", JStr(f.scope_of_work)),
          Slot(274, "str", JStr(f.out_of_scope)),
          Slot(278, "str", JStr(f.deliverables)),
          Slot(285, "str", JStr(f.timeline_overview)),
          Slot(288, "str", JStr(f.stakeholders)),
          Slot(292, "str", JStr(f.key_constraints)),
          Slot(295, "str", clientName), Slot(295, "str", projectName)>>

llm_agents_proposal_request(data) ==
    IF llm_agents_proposal_guard(data) \/ proposal_fragments_raise(data.d) # "none"
    THEN NoRequest
    ELSE llm_agents_proposal_user_prompt(data.d)

llm_agents_proposal_response(data, choice, client_openai, client_gemini, provider) ==
    IF llm_agents_proposal_guard(data) \/ proposal_fragments_raise(data.d) # "none"
    THEN NoCall
    ELSE llm_agents_call_llm("text", choice, client_openai, client_gemini, provider)

llm_agents_proposal_generation_agent_run(data, choice, client_openai, client_gemini, provider) ==
    IF llm_agents_proposal_guard(data) THEN PlainText(PROPOSAL_REFUSAL)
    ELSE llm_agents_proposal_response(data, choice, client_openai, client_gemini, provider)

llm_agents_proposal_exception(data) ==
    IF llm_agents_proposal_guard(data) THEN "none" ELSE proposal_fragments_raise(data.d)

(***************************************************************************)
(* What the environment can supply: document texts, provider choices, and  *)
(* the contents a provider can return.  An object is a background (the     *)
(* empty object, or a well-formed document) with one field, or the two     *)
(* string fields, set to every raw shape.                                  *)
(***************************************************************************)
SeqsUpTo(S, n) == UNION {[1..k -> S] : k \in 0..n}

D_FULL == JObj([name |-> JStr(T_X), description |-> JStr(T_Y)])
D_EXTRA == JObj([name |-> JStr(T_REPORT), description |-> JStr(T_FINAL),
                 owner |-> JStr(T_Z)])
D_NAME_ONLY == JObj([name |-> JStr(T_REPORT)])
D_NULL_NAME == JObj([name |-> JNull, description |-> JStr(T_FINAL)])

CANONICAL ==
    [project_name |-> JStr(T_ACME), client_name |-> JStr(T_X),
     objectives |-> JList(<<JStr(T_API)>>),
     scope_of_work |-> JList(<<JStr(T_DEPLOY)>>),
     out_of_scope |-> JList(<<>>),
     deliverables |-> JList(<<D_FULL>>),
     technical_requirements |-> JList(<<JStr(T_Y)>>),
     key_constraints |-> JList(<<>>),
     stakeholders |-> JList(<<JStr(T_Z)>>),
     timeline_overview |-> JList(<<JStr(T_FINAL)>>)]

Backgrounds == {EmptyDict, CANONICAL}

\* a key the object does not carry
Absent == [JNull EXCEPT !.t = "absent"]
With(d, k, x) == IF x = Absent THEN dict_del(d, k) ELSE dict_set(d, k, x)

NonLists ==
    {Absent, JNull, JNum(42), JNum(0), JBool(TRUE), D_FULL, JStr(<<>>), JStr(T_API),
     JStr(NA_LOWER), JStr(SENTINEL), JStr(NA_MIXED)}

ListItems == {JStr(T_API), JStr(T_DEPLOY), JStr(NA_LOWER), JStr(SENTINEL), JNum(42), JNull}
RawListValues ==
    {JList(l) : l \in SeqsUpTo(ListItems, MaxLen)}
        \cup {JList(<<JStr(T_API), JStr(NA_LOWER), JStr(T_DEPLOY)>>),
              JList(<<JStr(SENTINEL), JStr(T_X)>>)}
        \cup NonLists

DeliverableItems ==
    {D_FULL, D_EXTRA, D_NAME_ONLY, D_NULL_NAME, JStr(T_REPORT), JStr(SENTINEL),
     JStr(<<>>), JNum(42)}
RawDeliverables ==
    {JList(l) : l \in SeqsUpTo(DeliverableItems, MaxLen)}
        \cup {JList(<<D_FULL, JStr(T_Z), JNum(42)>>)}
        \cup NonLists

RawStrings ==
    {Absent, JNull, JStr(<<>>), JStr(NA_LOWER), JStr(SENTINEL), JStr(NA_MIXED),
     JStr(T_ACME), JStr(T_PADDED), JNum(42), JNum(0), JBool(TRUE),
     JList(<<JStr(T_ACME)>>), D_NAME_ONLY}

RawErrors ==
    {JStr(T_QUOTA), JStr(<<>>), JNull, JBool(FALSE), JBool(TRUE), JNum(0), JNum(1),
     JList(<<>>), D_NAME_ONLY}

ListFieldSet == {LIST_FIELDS[i] : i \in 1..Len(LIST_FIELDS)}
StringFieldSet == {STRING_FIELDS[i] : i \in 1..Len(STRING_FIELDS)}
SchemaFieldSet == ListFieldSet \cup StringFieldSet \cup {"deliverables"}

Objects ==
    {With(bg, k, x) : bg \in Backgrounds, k \in ListFieldSet, x \in RawListValues}
        \cup {With(bg, "deliverables", x) : bg \in Backgrounds, x \in RawDeliverables}
        \cup {With(With(bg, "project_name", p), "client_name", c) :
                  bg \in Backgrounds, p \in RawStrings, c \in RawStrings}
        \cup {With(bg, "error", e) : bg \in Backgrounds, e \in RawErrors}

NonObjects ==
    {JNull, JBool(TRUE), JNum(42), JStr(T_ACME), JList(<<>>), JList(<<JObj(CANONICAL)>>)}

\* a text of n characters, the i-th being the last digit of i
DigitText(n) == [i \in 1..n |-> DigitChar(i % 10)]

\* texts that do not decode, about the length of the excerpt
LongGarbled ==
    {PlainText(DigitText(n) \o T_GARBLED) :
         n \in {EXCERPT_LEN - Len(T_GARBLED) - 1, EXCERPT_LEN - Len(T_GARBLED),
                EXCERPT_LEN, EXCERPT_LEN + Margin}}

Contents ==
    {json_dumps(JObj(d)) : d \in Objects}
        \cup {json_dumps(x) : x \in NonObjects}
        \cup {PlainText(T_GARBLED), PlainText(<<>>), NoneContent}
        \cup LongGarbled

ProviderOutcomes ==
    {Returns(c) : c \in Contents} \cup {Raises(T_QUOTA), Raises(<<>>)}

\* a document text is a string, or None
SowTexts == {JStr(<<>>), JStr(T_SOW), JNull}
Choices == {OPENAI, GEMINI, LLAMA}

PromptTexts ==
    {JStr(DigitText(n)) :
         n \in (0..(2 * Margin)) \cup ((TEXT_LIMIT - Margin)..(TEXT_LIMIT + Margin))}
PromptOutcomes == {Returns(json_dumps(JObj(CANONICAL))), Raises(T_QUOTA)}

\* what a provider can do with a request for free text
TextOutcomes ==
    {Returns(PlainText(T_REPORT)), Returns(PlainText(<<>>)), Returns(NoneContent),
     Raises(T_QUOTA), Raises(<<>>)}
PipelineOutcomes == {Returns(PlainText(T_REPORT))}

\* the documents handed to the generators: None, the empty dict, the results of
\* data_extraction_agent_run (failures, and the cleanup of decoded objects), and
\* dicts that did not pass through the cleanup
DecodedForGenerators ==
    {EmptyDict, CANONICAL,
     With(EmptyDict, "error", JStr(<<>>)),
     With(CANONICAL, "key_constraints", JList(<<JStr(T_BUDGET)>>)),
     With(CANONICAL, "key_constraints", JList(<<JStr(T_BUDGET), JStr(T_FINAL)>>)),
     With(CANONICAL, "objectives", JList(<<JStr(T_API), JStr(T_DEPLOY)>>)),
     With(CANONICAL, "deliverables", JList(<<D_NULL_NAME, JStr(T_REPORT), D_EXTRA>>)),
     With(CANONICAL, "project_name", JNum(42)),
     With(CANONICAL, "technical_requirements", JList(<<JStr(<<>>)>>)),
     With(CANONICAL, "stakeholders", JList(<<JStr(<<>>), JStr(<<>>)>>)),
     With(CANONICAL, "objectives", JList(<<>>)),
     With(CANONICAL, "deliverables", Absent)}
        \cup {With(CANONICAL, "error", e) : e \in RawErrors}
UncleanedForGenerators ==
    {CANONICAL,
     [project_name |-> JStr(T_ACME)],
     With(CANONICAL, "client_name", Absent),
     With(CANONICAL, "stakeholders", JList(<<JStr(T_X), JNum(42)>>)),
     With(CANONICAL, "deliverables", JList(<<JStr(T_REPORT), JNum(42)>>)),
     With(CANONICAL, "deliverables", JNum(42)),
     With(CANONICAL, "timeline_overview", JStr(T_X \o T_Y))}
GeneratorDocuments ==
    {JNull, JObj(EmptyDict), JObj(error_result(NO_SOW_TEXT)),
     JObj(error_result(PARSE_FAILED \o T_GARBLED))}
        \cup {JObj(post_deserialization_cleanup(d)) : d \in DecodedForGenerators}
        \cup {JObj(d) : d \in UncleanedForGenerators}

(***************************************************************************)
(* app.py: the Streamlit script.  Every user action reruns the script from *)
(* its first line; st.session_state, the uploader's file and the           *)
(* connector's two handles are what one run leaves to the next.            *)
(***************************************************************************)
LLM_CHOICE == GEMINI
UNKNOWN_ERROR == <<"U", "n", "k", "n", "o", "w", "n", " ", "e", "r", "r", "o", "r", ".">>

\* the uploader is empty, or holds one of these files
NoFile == "none"
UploadedFiles == {"sow_a.pdf", "sow_b.docx", "scan.pdf"}

\* lines 307-320: the text utils extracts from the uploaded file, "" when there
\* is no file or the extraction fails
uploaded_sow_text(file) ==
    IF file = "sow_a.pdf" THEN JStr(T_SOW)
    ELSE IF file = "sow_b.docx" THEN JStr(T_SOW \o T_X)
    ELSE JStr(<<>>)

\* st.session_state: a key not in it holds Absent (NotStored for the draft)
NotStored == [kind |-> "absent", value |-> JNull, text |-> <<>>]
EmptySession == [sow_structured_data |-> Absent, proposal_draft |-> NotStored]
NoProvenance == [sow_structured_data |-> NoFile, proposal_draft |-> NoFile]

\* what a run of the script did: the action that triggered it, the widgets and
\* sections it rendered, the calls it made of the agents and of _call_llm, and
\* the exception that ended it
NoRun ==
    [trigger |-> "none", stopped |-> FALSE, uploader |-> FALSE, analyze_button |-> FALSE,
     proposal_button |-> FALSE, backend_calls |-> 0, raised |-> "none",
     extraction |-> Absent, error_shown |-> Absent, dashboard |-> FALSE,
     analysis_input |-> Absent, summary |-> NoCall, proposal_input |-> Absent,
     proposal_outcome |-> NotReached, proposal_result |-> NoCall,
     reported_generated |-> FALSE, draft_shown |-> FALSE]

\* bool(s) of the string a generator returned
draft_truthy(c) == c.kind = "text" /\ c.text # <<>>

\* lines 339-340 and 526-527
handle_missing(client_openai, client_gemini) ==
    \/ LLM_CHOICE = OPENAI /\ ~client_openai
    \/ LLM_CHOICE = GEMINI /\ ~client_gemini

\* lines 359-360
shows_dashboard(sess) ==
    /\ sess.sow_structured_data # Absent
    /\ truthy(sess.sow_structured_data)
    /\ ~truthy(dict_get(sess.sow_structured_data.d, "error"))

\* lines 334-355: the Analyze button and its handler.  After a failed
\* extraction line 352 stores None and line 354 calls .get on it.
analyze_section(text, clicked, sess, client_openai, client_gemini, provider) ==
    LET invoked == /\ truthy(text)
                   /\ clicked = "analyze"
                   /\ ~handle_missing(client_openai, client_gemini)
        response == extraction_response(text, LLM_CHOICE, client_openai, client_gemini,
                                        provider)
        result == data_extraction_agent_run(text, LLM_CHOICE, client_openai, client_gemini,
                                            provider)
        calls == IF response = NoCall THEN 0 ELSE 1
    IN  IF ~invoked
        THEN [session |-> sess, extraction |-> Absent, error_shown |-> Absent,
              backend_calls |-> 0, raised |-> "none"]
        ELSE IF extraction_exception(text, response) # "none"
        THEN [session |-> sess, extraction |-> Absent, error_shown |-> Absent,
              backend_calls |-> calls, raised |-> extraction_exception(text, response)]
        ELSE IF ~is_failed_result(result)
        THEN [session |-> [sess EXCEPT !.sow_structured_data = JObj(result)],
              extraction |-> JObj(result), error_shown |-> Absent,
              backend_calls |-> calls, raised |-> "none"]
        ELSE [session |-> [sess EXCEPT !.sow_structured_data = JNull],
              extraction |-> JObj(result),
              error_shown |-> dict_get_default(result, "error", JStr(UNKNOWN_ERROR)),
              backend_calls |-> calls, raised |-> "AttributeError"]

\* lines 359-577: the dashboard, the summary, the Generate Proposal Draft
\* button with its handler, and the stored draft
dashboard_section(text, clicked, sess, client_openai, client_gemini, p_summary, p_proposal) ==
    LET shown == truthy(text) /\ shows_dashboard(sess)
        sow_data == sess.sow_structured_data
        summary_response == analysis_response(sow_data, LLM_CHOICE, client_openai,
                                              client_gemini, p_summary)
        proposing == /\ shown
                     /\ clicked = "proposal"
                     /\ ~handle_missing(client_openai, client_gemini)
        raised == IF proposing THEN proposal_exception(sow_data) ELSE "none"
        draft_response == proposal_response(sow_data, LLM_CHOICE, client_openai,
                                            client_gemini, p_proposal)
        draft == proposal_generation_agent_run(sow_data, LLM_CHOICE, client_openai,
                                               client_gemini, p_proposal)
        stored == proposing /\ raised = "none"
        after == IF stored THEN [sess EXCEPT !.proposal_draft = draft] ELSE sess
    IN  [session |-> after,
         dashboard |-> shown,
         analysis_input |-> IF shown THEN sow_data ELSE Absent,
         summary |-> IF shown
                     THEN analysis_agent_run(sow_data, LLM_CHOICE, client_openai,
                                             client_gemini, p_summary)
                     ELSE NoCall,
         proposal_button |-> shown,
         proposal_input |-> IF proposing THEN sow_data ELSE Absent,
         proposal_outcome |-> IF proposing THEN p_proposal ELSE NotReached,
         proposal_result |-> IF stored THEN draft ELSE NoCall,
         reported_generated |-> stored,
         draft_shown |-> /\ shown
                         /\ raised = "none"
                         /\ after.proposal_draft # NotStored
                         /\ draft_truthy(after.proposal_draft),
         backend_calls |-> (IF shown /\ summary_response # NoCall THEN 1 ELSE 0)
                               + (IF stored /\ draft_response # NoCall THEN 1 ELSE 0),
         raised |-> raised]

\* lines 280-581: one run of the script, from the initialisation of the client
\* (st.stop() when it raises) to the footer or to the exception that ends it;
\* init, a and d are what the initialisation and the two sections did
script_run(clicked, text, sess, init, a, d) ==
    LET rendered == [NoRun EXCEPT !.trigger = clicked, !.uploader = TRUE,
                                  !.analyze_button = truthy(text)]
    IN  IF init.raised # "none"
        THEN [session |-> sess,
              run |-> [NoRun EXCEPT !.trigger = clicked, !.stopped = TRUE]]
        ELSE IF a.raised # "none"
        THEN [session |-> a.session,
              run |-> [rendered EXCEPT !.backend_calls = a.backend_calls,
                                       !.raised = a.raised,
                                       !.extraction = a.extraction,
                                       !.error_shown = a.error_shown]]
        ELSE [session |-> d.session,
              run |-> [rendered EXCEPT !.backend_calls = a.backend_calls + d.backend_calls,
                                       !.raised = d.raised,
                                       !.extraction = a.extraction,
                                       !.error_shown = a.error_shown,
                                       !.dashboard = d.dashboard,
                                       !.analysis_input = d.analysis_input,
                                       !.summary = d.summary,
                                       !.proposal_button = d.proposal_button,
                                       !.proposal_input = d.proposal_input,
                                       !.proposal_outcome = d.proposal_outcome,
                                       !.proposal_result = d.proposal_result,
                                       !.reported_generated = d.reported_generated,
                                       !.draft_shown = d.draft_shown]]

\* what the provider can do with the requests of the application
AppExtractionOutcomes ==
    {Returns(json_dumps(JObj(CANONICAL))), Returns(PlainText(T_GARBLED)),
     Raises(T_QUOTA), Raises(<<>>)}
AppTextOutcomes == {Returns(PlainText(T_REPORT)), Raises(T_QUOTA)}

(***************************************************************************)
(* State.                                                                  *)
(***************************************************************************)
VARIABLES
    openai_client,      \* llm_connector.openai_client: is the handle set
    gemini_model,       \* llm_connector.gemini_model: is the handle set
    module,             \* the module whose agent made the last call
    operation,          \* which of its agents: "extract", "analyze", "propose"
    sow_text,           \* the document text of the last extraction call
    structured,         \* the document handed to the last generator call
    structured_after,   \* that document, as the caller holds it after the call
    llm_choice,         \* the llm_choice of the last call
    request,            \* the user prompt it handed to _call_llm (NoRequest: none)
    response_format,    \* the response_format it handed to _call_llm ("none": no call)
    provider_outcome,   \* what the provider did with the request, if it got one
    response_content,   \* what _call_llm returned to it (NoCall: no call made)
    extracted,          \* the dict the extraction agent returned
    generated,          \* the string the generator returned
    exception,          \* the exception the agent raised to its caller, or "none"
    uploaded_file,      \* app.py: the file in the uploader, NoFile when it is empty
    session,            \* app.py: st.session_state
    provenance,         \* the uploaded file each entry of st.session_state was made from
    run                 \* app.py: what the last run of the script did and rendered

\* what the last call of an agent was and did
call_vars == <<module, operation, sow_text, structured, structured_after, llm_choice,
               request, response_format, provider_outcome, response_content, extracted,
               generated, exception>>

\* the application's own state
app_vars == <<uploaded_file, session, provenance, run>>

vars == <<openai_client, gemini_model, call_vars, app_vars>>

Init ==
    /\ openai_client = FALSE
    /\ gemini_model = FALSE
    /\ module = "none"
    /\ operation = "none"
    /\ sow_text = JStr(<<>>)
    /\ structured = JNull
    /\ structured_after = JNull
    /\ llm_choice = OPENAI
    /\ request = NoRequest
    /\ response_format = "none"
    /\ provider_outcome = NotReached
    /\ response_content = NoCall
    /\ extracted = EmptyDict
    /\ generated = NoCall
    /\ exception = "none"
    /\ uploaded_file = NoFile
    /\ session = EmptySession
    /\ provenance = NoProvenance
    /\ run = NoRun

\* initialize_llm_clients(llm_choice), api_key being os.getenv's answer; a
\* ValueError leaves the handles as they were.  A behaviour is any number of
\* initialisations followed by one call of an agent, where it ends.
InitializeLLMClients ==
    /\ module = "none"
    /\ \E choice \in Choices, api_key \in BOOLEAN :
           LET after == initialize_llm_clients(choice, api_key, openai_client, gemini_model)
           IN  /\ openai_client' = after.openai_client
               /\ gemini_model' = after.gemini_model
               /\ UNCHANGED <<call_vars, app_vars>>

\* the provider's outcome matters only to a call that reaches the provider
OutcomesOf(outcomes, reached) == IF reached THEN outcomes ELSE {NotReached}
OutcomesFor(reached) == OutcomesOf(ProviderOutcomes, reached)

\* an exception leaving _call_llm leaves the agent that called it
propagated(response) == IF response.kind = "ValueError" THEN "ValueError" ELSE "none"

\* agents.data_extraction_agent.data_extraction_agent_run(text, choice); the
\* agents keep no state from one call to the next
ExtractCall(texts, outcomes) ==
    /\ module = "none"
    /\ \E text \in texts, choice \in Choices :
           \E provider \in OutcomesOf(outcomes,
                               truthy(text) /\
                               reaches_provider(choice, openai_client, gemini_model)) :
               LET response == extraction_response(text, choice, openai_client,
                                                   gemini_model, provider)
                   raised == extraction_exception(text, response)
               IN  /\ module' = "agents"
                   /\ operation' = "extract"
                   /\ sow_text' = text
                   /\ llm_choice' = choice
                   /\ request' = extraction_request(text)
                   /\ response_format' = IF response = NoCall THEN "none" ELSE "json_object"
                   /\ provider_outcome' = provider
                   /\ response_content' = response
                   /\ extracted' =
                          IF raised # "none" THEN EmptyDict
                          ELSE data_extraction_agent_run(text, choice, openai_client,
                                                         gemini_model, provider)
                   /\ exception' = raised
                   /\ UNCHANGED <<openai_client, gemini_model, structured,
                                  structured_after, generated, app_vars>>

Extract == ExtractCall(SowTexts, ProviderOutcomes)

\* the same call on texts about the truncation limit
ExtractLongText == ExtractCall(PromptTexts, PromptOutcomes)

\* llm_agents.data_extraction_agent_run(text, choice); that module's own two
\* handles are set from outside it and are an input here
LlmAgentsExtract ==
    /\ module = "none"
    /\ \E text \in SowTexts, choice \in Choices, client_o \in BOOLEAN, client_g \in BOOLEAN :
           \E provider \in OutcomesFor(truthy(text) /\ ~llm_agents_user_prompt_raises /\
                               reaches_provider(choice, client_o, client_g)) :
               LET outcome == llm_agents_data_extraction_agent_run(
                                  text, choice, client_o, client_g, provider)
                   response == llm_agents_extraction_response(text, choice, client_o,
                                                              client_g, provider)
               IN  /\ module' = "llm_agents"
                   /\ operation' = "extract"
                   /\ sow_text' = text
                   /\ llm_choice' = choice
                   /\ request' = NoRequest
                   /\ response_format' = IF response = NoCall THEN "none" ELSE "json_object"
                   /\ provider_outcome' = provider
                   /\ response_content' = response
                   /\ extracted' = outcome.value
                   /\ exception' = outcome.exception
                   /\ UNCHANGED <<openai_client, gemini_model, structured,
                                  structured_after, generated, app_vars>>

\* agents.analysis_agent.analysis_agent_run(data, choice)
AnalyzeCall(documents, choices, outcomes) ==
    \E data \in documents, choice \in choices :
        \E provider \in OutcomesOf(outcomes,
                            ~analysis_guard(data) /\
                            reaches_provider(choice, openai_client, gemini_model)) :
            LET response == analysis_response(data, choice, openai_client, gemini_model,
                                              provider)
                raised == propagated(response)
            IN  /\ module' = "agents"
                /\ operation' = "analyze"
                /\ structured' = data
                /\ structured_after' = analysis_document_after(data)
                /\ llm_choice' = choice
                /\ request' = analysis_request(data)
                /\ response_format' = IF response = NoCall THEN "none" ELSE "text"
                /\ provider_outcome' = provider
                /\ response_content' = response
                /\ generated' =
                       IF raised # "none" THEN NoCall
                       ELSE analysis_agent_run(data, choice, openai_client,
                                               gemini_model, provider)
                /\ exception' = raised
                /\ UNCHANGED <<openai_client, gemini_model, sow_text, extracted, app_vars>>

Analyze == module = "none" /\ AnalyzeCall(GeneratorDocuments, Choices, TextOutcomes)

\* agents.proposal_generation_agent.proposal_generation_agent_run(data, choice)
GenerateProposalCall(documents, choices, outcomes) ==
    \E data \in documents, choice \in choices :
        \E provider \in OutcomesOf(outcomes,
                            ~proposal_guard(data) /\
                            proposal_exception(data) = "none" /\
                            reaches_provider(choice, openai_client, gemini_model)) :
            LET response == proposal_response(data, choice, openai_client, gemini_model,
                                              provider)
                raised == IF proposal_exception(data) # "none"
                          THEN proposal_exception(data)
                          ELSE propagated(response)
            IN  /\ module' = "agents"
                /\ operation' = "propose"
                /\ structured' = data
                /\ structured_after' = proposal_document_after(data)
                /\ llm_choice' = choice
                /\ request' = proposal_request(data)
                /\ response_format' = IF response = NoCall THEN "none" ELSE "text"
                /\ provider_outcome' = provider
                /\ response_content' = response
                /\ generated' =
                       IF raised # "none" THEN NoCall
                       ELSE proposal_generation_agent_run(data, choice, openai_client,
                                                          gemini_model, provider)
                /\ exception' = raised
                /\ UNCHANGED <<openai_client, gemini_model, sow_text, extracted, app_vars>>

GenerateProposal ==
    module = "none" /\ GenerateProposalCall(GeneratorDocuments, Choices, TextOutcomes)

\* the generators called on what the extraction agent has just returned, with
\* the same llm_choice
AnalyzeExtracted ==
    /\ module = "agents"
    /\ operation = "extract"
    /\ exception = "none"
    /\ AnalyzeCall({JObj(extracted)}, {llm_choice}, PipelineOutcomes)

GenerateProposalFromExtracted ==
    /\ module = "agents"
    /\ operation = "extract"
    /\ exception = "none"
    /\ GenerateProposalCall({JObj(extracted)}, {llm_choice}, PipelineOutcomes)

\* llm_agents.analysis_agent_run(data, choice)
LlmAgentsAnalyze ==
    /\ module = "none"
    /\ \E data \in GeneratorDocuments, choice \in Choices,
          client_o \in BOOLEAN, client_g \in BOOLEAN :
           \E provider \in OutcomesOf(TextOutcomes,
                               ~llm_agents_analysis_guard(data) /\
                               reaches_provider(choice, client_o, client_g)) :
               LET response == llm_agents_analysis_response(data, choice, client_o,
                                                            client_g, provider)
               IN  /\ module' = "llm_agents"
                   /\ operation' = "analyze"
                   /\ structured' = data
                   /\ structured_after' = data
                   /\ llm_choice' = choice
                   /\ request' = llm_agents_analysis_request(data)
                   /\ response_format' = IF response = NoCall THEN "none" ELSE "text"
                   /\ provider_outcome' = provider
                   /\ response_content' = response
                   /\ generated' =
                          IF propagated(response) # "none" THEN NoCall
                          ELSE llm_agents_analysis_agent_run(data, choice, client_o,
                                                             client_g, provider)
                   /\ exception' = propagated(response)
                   /\ UNCHANGED <<openai_client, gemini_model, sow_text, extracted,
                                  app_vars>>

\* llm_agents.proposal_generation_agent_run(data, choice)
LlmAgentsGenerateProposal ==
    /\ module = "none"
    /\ \E data \in GeneratorDocuments, choice \in Choices,
          client_o \in BOOLEAN, client_g \in BOOLEAN :
           \E provider \in OutcomesOf(TextOutcomes,
                               ~llm_agents_proposal_guard(data) /\
                               llm_agents_proposal_exception(data) = "none" /\
                               reaches_provider(choice, client_o, client_g)) :
               LET response == llm_agents_proposal_response(data, choice, client_o,
                                                            client_g, provider)
                   raised == IF llm_agents_proposal_exception(data) # "none"
                             THEN llm_agents_proposal_exception(data)
                             ELSE propagated(response)
               IN  /\ module' = "llm_agents"
                   /\ operation' = "propose"
                   /\ structured' = data
                   /\ structured_after' = data
                   /\ llm_choice' = choice
                   /\ request' = llm_agents_proposal_request(data)
                   /\ response_format' = IF response = NoCall THEN "none" ELSE "text"
                   /\ provider_outcome' = provider
                   /\ response_content' = response
                   /\ generated' =
                          IF raised # "none" THEN NoCall
                          ELSE llm_agents_proposal_generation_agent_run(
                                   data, choice, client_o, client_g, provider)
                   /\ exception' = raised
                   /\ UNCHANGED <<openai_client, gemini_model, sow_text, extracted,
                                  app_vars>>

Next ==
    \/ InitializeLLMClients
    \/ Extract
    \/ LlmAgentsExtract
    \/ Analyze
    \/ GenerateProposal
    \/ LlmAgentsAnalyze
    \/ LlmAgentsGenerateProposal

Spec == Init /\ [][Next]_vars

\* the extraction agent on texts about the truncation limit
PromptNext == InitializeLLMClients \/ ExtractLongText

PromptSpec == Init /\ [][PromptNext]_vars

\* an extraction followed by a generator called on its result
PipelineNext ==
    \/ InitializeLLMClients
    \/ Extract
    \/ AnalyzeExtracted
    \/ GenerateProposalFromExtracted

PipelineSpec == Init /\ [][PipelineNext]_vars

\* One run of the script on the uploader's file and the session state it finds,
\* clicked naming the widget whose use triggered it.  The provenance records
\* the file whose text the stored data was extracted from.
ScriptRun(file, sess, prov, clicked) ==
    \E api_key \in BOOLEAN, text \in {uploaded_sow_text(file)} :
    \E init \in {initialize_llm_clients(LLM_CHOICE, api_key, openai_client, gemini_model)} :
    \E reached \in {/\ init.raised = "none"
                    /\ truthy(text)
                    /\ reaches_provider(LLM_CHOICE, init.openai_client, init.gemini_model)} :
    \E p_extract \in OutcomesOf(AppExtractionOutcomes, reached /\ clicked = "analyze") :
    \E a \in {analyze_section(text, clicked, sess, init.openai_client, init.gemini_model,
                              p_extract)} :
    \E shown \in {reached /\ a.raised = "none" /\ shows_dashboard(a.session)} :
    \E p_summary \in OutcomesOf(AppTextOutcomes, shown),
       p_proposal \in OutcomesOf(AppTextOutcomes, shown /\ clicked = "proposal") :
    \E d \in {dashboard_section(text, clicked, a.session, init.openai_client,
                                init.gemini_model, p_summary, p_proposal)} :
    \E r \in {script_run(clicked, text, sess, init, a, d)} :
    \E from \in {IF r.run.extraction = Absent THEN prov.sow_structured_data
                 ELSE IF r.session.sow_structured_data = JNull THEN NoFile
                 ELSE file} :
        /\ openai_client' = init.openai_client
        /\ gemini_model' = init.gemini_model
        /\ uploaded_file' = file
        /\ session' = r.session
        /\ provenance' = [sow_structured_data |-> from,
                          proposal_draft |-> IF r.run.reported_generated THEN from
                                             ELSE prov.proposal_draft]
        /\ run' = r.run
        /\ UNCHANGED call_vars

\* the page is loaded, or rerun by a widget that has no handler (a download
\* button, the text areas)
Rerun == ScriptRun(uploaded_file, session, provenance, "rerun")

\* a file is put into the uploader, or taken out of it
UploadFile ==
    /\ run.uploader
    /\ \E file \in (UploadedFiles \cup {NoFile}) \ {uploaded_file} :
           ScriptRun(file, session, provenance, "upload")

\* the button "Analyze SOW Details"
ClickAnalyze ==
    /\ run.analyze_button
    /\ ScriptRun(uploaded_file, session, provenance, "analyze")

\* the button "Generate Proposal Draft"
ClickGenerateProposal ==
    /\ run.proposal_button
    /\ ScriptRun(uploaded_file, session, provenance, "proposal")

\* the button "Start Fresh / Reset": reset_app deletes every key of
\* st.session_state, and the script runs again
ClickReset ==
    /\ run.uploader
    /\ ScriptRun(uploaded_file, EmptySession, NoProvenance, "reset")

AppNext ==
    \/ Rerun
    \/ UploadFile
    \/ ClickAnalyze
    \/ ClickGenerateProposal
    \/ ClickReset

AppSpec == Init /\ [][AppNext]_vars

(***************************************************************************)
(* Vocabulary of the properties.                                           *)
(***************************************************************************)
\* the last call was agents.data_extraction_agent's and json.loads returned a
\* dict to it
DecodedObject ==
    /\ module = "agents"
    /\ operation = "extract"
    /\ response_content.kind = "json"
    /\ isinstance_dict(response_content.value)

\* the dict json.loads returned
raw == response_content.value.d

IsSentinel(x) == isinstance_str(x) /\ lower(x.s) = NA_LOWER
IsListOfStrings(x) == isinstance_list(x) /\ \A i \in 1..Len(x.l) : isinstance_str(x.l[i])
IsNonEmptyString(x) == isinstance_str(x) /\ Len(x.s) > 0
HasNameAndDescription(x) ==
    isinstance_dict(x) /\ "name" \in DOMAIN x.d /\ "description" \in DOMAIN x.d

\* out lists, in input order and one for one, the image of every kept item of inp
IsFilteredMap(inp, out, Keep(_), Image(_)) ==
    LET kept == {i \in 1..Len(inp) : Keep(inp[i])}
    IN  /\ Len(out) = Cardinality(kept)
        /\ \A i \in kept : out[Cardinality({h \in kept : h <= i})] = Image(inp[i])

Same(x) == x

\* the last call was agents.data_extraction_agent's
Extraction == module = "agents" /\ operation = "extract"

\* s[:n] written out: the first n characters of s, all of s when it is shorter
FirstChars(s, n) == SubSeq(s, 1, IF Len(s) < n THEN Len(s) ELSE n)

StartsWith(s, prefix) ==
    Len(s) >= Len(prefix) /\ \A i \in 1..Len(prefix) : s[i] = prefix[i]

IsSubstring(needle, hay) ==
    \E i \in 0..(Len(hay) - Len(needle)) :
        \A j \in 1..Len(needle) : hay[i + j] = needle[j]

\* the string a failed _call_llm is to return for message m
ErrorString(format, m) ==
    IF format = "json_object" THEN JsonText(JObj([error |-> JStr(m)]))
    ELSE PlainText(<<"E", "r", "r", "o", "r", ":", " ">> \o m)

\* the texts interpolated into the sections of a proposal prompt: the fields that
\* follow the embedded JSON document
SectionTexts(prompt) ==
    {prompt[i].value.s :
         i \in {k \in 1..Len(prompt) :
                    /\ \E j \in 1..(k - 1) : prompt[j].how = "json"
                    /\ isinstance_str(prompt[k].value)}}
KeptInList(x) == isinstance_str(x) /\ ~IsSentinel(x)
KeptDeliverable(x) == HasNameAndDescription(x) \/ (isinstance_str(x) /\ ~IsSentinel(x))
Upgraded(x) ==
    IF isinstance_str(x) THEN JObj([name |-> x, description |-> JStr(NOT_DETAILED)]) ELSE x

(***************************************************************************)
(* Properties.                                                             *)
(***************************************************************************)
\* C1: for every response that decodes to an object, the returned record has each
\* of the seven list fields a list of strings, deliverables a list of
\* name/description records, and project_name and client_name non-empty strings.
C1_Totality ==
    DecodedObject =>
        /\ \A k \in ListFieldSet : k \in DOMAIN extracted /\ IsListOfStrings(extracted[k])
        /\ "deliverables" \in DOMAIN extracted
        /\ isinstance_list(extracted["deliverables"])
        /\ \A i \in 1..Len(extracted["deliverables"].l) :
               HasNameAndDescription(extracted["deliverables"].l[i])
        /\ \A k \in {"project_name", "client_name"} :
               k \in DOMAIN extracted /\ IsNonEmptyString(extracted[k])

\* C2: after normalization no element of any of the seven list fields equals
\* "n/a" case-insensitively, whatever the shape of the raw value.
C2_SentinelIsolation ==
    DecodedObject =>
        \A k \in ListFieldSet :
            /\ k \in DOMAIN extracted
            /\ isinstance_list(extracted[k])
            /\ \A i \in 1..Len(extracted[k].l) : ~IsSentinel(extracted[k].l[i])

C2_Witness ==
    /\ DecodedObject
    /\ dict_get(raw, "objectives") = JList(<<JStr(SENTINEL), JStr(T_X)>>)
    /\ extracted["objectives"] = JList(<<JStr(T_X)>>)

\* C3: when the raw value of a list field is a list, the normalized field is
\* exactly its elements that are strings other than "n/a" (any case), in input
\* order, repeated elements all kept.
C3_KeptSubsequence ==
    DecodedObject =>
        \A k \in ListFieldSet :
            isinstance_list(dict_get(raw, k)) =>
                /\ isinstance_list(extracted[k])
                /\ IsFilteredMap(raw[k].l, extracted[k].l, KeptInList, Same)

C3_Witness ==
    /\ DecodedObject
    /\ dict_get(raw, "scope_of_work") = JList(<<JStr(T_API), JStr(NA_LOWER), JStr(T_DEPLOY)>>)
    /\ extracted["scope_of_work"] = JList(<<JStr(T_API), JStr(T_DEPLOY)>>)

\* C4: when the raw value of a list field is not a list (absent, null, number,
\* boolean, object, "n/a" in any case, any other bare string), the normalized
\* field is the empty list.
C4_NonListIsEmpty ==
    DecodedObject =>
        \A k \in ListFieldSet :
            ~isinstance_list(dict_get(raw, k)) => extracted[k] = JList(<<>>)

C4_Witness ==
    /\ DecodedObject
    /\ dict_get(raw, "stakeholders") = JStr(T_API)
    /\ extracted["stakeholders"] = JList(<<>>)

\* C5: raw deliverables that are a list are repaired element by element in input
\* order: an object with name and description is kept as it is, a string other
\* than "n/a" becomes {name: string, description: "Not detailed by AI"}, anything
\* else is dropped; raw deliverables that are not a list give the empty list.
C5_DeliverableRepair ==
    DecodedObject =>
        /\ isinstance_list(extracted["deliverables"])
        /\ IF isinstance_list(dict_get(raw, "deliverables"))
           THEN IsFilteredMap(raw["deliverables"].l, extracted["deliverables"].l,
                              KeptDeliverable, Upgraded)
           ELSE extracted["deliverables"].l = <<>>

C5_Witness ==
    /\ DecodedObject
    /\ dict_get(raw, "deliverables") = JList(<<D_FULL, JStr(T_Z), JNum(42)>>)
    /\ extracted["deliverables"] =
           JList(<<D_FULL, JObj([name |-> JStr(T_Z), description |-> JStr(NOT_DETAILED)])>>)

\* C6: after normalization every element of deliverables has a name and a
\* description that are non-empty strings.
C6_DeliverablesPopulated ==
    DecodedObject =>
        \A i \in 1..Len(extracted["deliverables"].l) :
            LET item == extracted["deliverables"].l[i]
            IN  /\ HasNameAndDescription(item)
                /\ IsNonEmptyString(item.d["name"])
                /\ IsNonEmptyString(item.d["description"])

\* C7: for project_name and client_name, a raw value that is missing, empty or
\* "n/a" in any case is normalized to "N/A", and any other string is passed
\* through unchanged.  The same holds of lines 158-161 of llm_agents.py taken as
\* a function of the decoded object (its data_extraction_agent_run raises before
\* the backend is called, so no run gets as far as those lines).
C7_ScalarSentinel ==
    DecodedObject =>
        \A k \in StringFieldSet :
            LET x == dict_get(raw, k)
                legacy == llm_agents_validate_string_field(raw, k)
            IN  /\ k \in DOMAIN extracted
                /\ (x.t = "null" \/ x = JStr(<<>>) \/ IsSentinel(x))
                       => /\ extracted[k] = JStr(SENTINEL)
                          /\ legacy[k] = JStr(SENTINEL)
                /\ (isinstance_str(x) /\ x.s # <<>> /\ ~IsSentinel(x))
                       => /\ extracted[k] = x
                          /\ legacy[k] = x

C7_Witness ==
    /\ DecodedObject
    /\ dict_get(raw, "project_name") = JStr(T_PADDED)
    /\ dict_get(raw, "client_name") = JStr(NA_MIXED)
    /\ extracted["project_name"] = JStr(T_PADDED)
    /\ extracted["client_name"] = JStr(SENTINEL)

\* C8: feeding the record normalization returned back in as the decoded value
\* returns the same record.
C8_Idempotent ==
    DecodedObject => parse_response(json_dumps(JObj(extracted))) = extracted

C8_Witness ==
    /\ DecodedObject
    /\ dict_get(raw, "deliverables") = JList(<<JStr(T_REPORT)>>)
    /\ extracted # raw
    /\ parse_response(json_dumps(JObj(extracted))) = extracted

\* C9: when the backend's string is the JSON object {"error": message} with a
\* non-empty message, the extraction result carries that message as its error
\* and the callers' check (result.get("error")) takes it for a failure.
C9_ErrorClassified ==
    ( /\ DecodedObject
      /\ DOMAIN raw = {"error"}
      /\ IsNonEmptyString(raw["error"]) )
    => /\ dict_get(extracted, "error") = raw["error"]
       /\ is_failed_result(extracted)

C9_Witness ==
    /\ module = "agents"
    /\ operation = "extract"
    /\ response_content = json_dumps(JObj([error |-> JStr(T_QUOTA)]))
    /\ extracted["error"] = JStr(T_QUOTA)
    /\ is_failed_result(extracted)

\* C10: whenever the decoded response carries an error key, whatever its value,
\* the outcome is classified as a failure and the other fields are not normalized.
C10_ErrorKeyIsFailure ==
    (DecodedObject /\ "error" \in DOMAIN raw)
    => /\ is_failed_result(extracted)
       /\ \A k \in SchemaFieldSet :
              k \in DOMAIN extracted => k \in DOMAIN raw /\ extracted[k] = raw[k]

\* C11: every extraction call returns exactly one variant: a failure (an error
\* marker and nothing else) or a success (the ten normalized fields and no error
\* marker), never an error marker together with document fields.
C11_OneVariant ==
    (Extraction /\ exception = "none") =>
        \/ DOMAIN extracted = {"error"}
        \/ "error" \notin DOMAIN extracted /\ SchemaFieldSet \subseteq DOMAIN extracted

\* C12: when the response is not valid JSON, the failure carries the first 500
\* characters of the response at most (all of it when shorter), never more.
C12_ExcerptBound ==
    (Extraction /\ response_content.kind = "text") =>
        /\ DOMAIN extracted = {"error"}
        /\ extracted["error"] =
               JStr(PARSE_FAILED \o FirstChars(response_content.text, EXCERPT_LEN))

C12_Witness ==
    /\ Extraction
    /\ response_content.kind = "text"
    /\ Len(response_content.text) > EXCERPT_LEN
    /\ Len(extracted["error"].s) = Len(PARSE_FAILED) + EXCERPT_LEN

\* C13: when the response is valid JSON that is not an object, extraction yields
\* the decode failure carrying the raw-response excerpt, as for non-JSON text.
C13_NonObjectIsDecodeFailure ==
    (Extraction /\ response_content.kind = "json"
                /\ ~isinstance_dict(response_content.value)) =>
        /\ DOMAIN extracted = {"error"}
        /\ isinstance_str(extracted["error"])
        /\ StartsWith(extracted["error"].s, PARSE_FAILED)

\* C14: when the document text is empty or absent, extraction returns the "no
\* text provided" failure and makes no call to the generative client.
C14_NoTextNoCall ==
    (Extraction /\ (sow_text = JNull \/ sow_text = JStr(<<>>))) =>
        /\ exception = "none"
        /\ extracted = [error |-> JStr(NO_SOW_TEXT)]
        /\ response_content = NoCall
        /\ request = NoRequest

C14_Witness ==
    /\ Extraction
    /\ sow_text = JStr(<<>>)
    /\ llm_choice = GEMINI
    /\ gemini_model
    /\ extracted = [error |-> JStr(NO_SOW_TEXT)]
    /\ response_content = NoCall

\* C15: the document text embedded in the extraction request is exactly the
\* prefix of the input of length min(len(text), 15000).
C15_Truncation ==
    (Extraction /\ sow_text # JNull /\ sow_text # JStr(<<>>)) =>
        /\ Len(request) = 1
        /\ request[1].how = "str"
        /\ request[1].value = JStr(FirstChars(sow_text.s, TEXT_LIMIT))

C15_Witness ==
    /\ Extraction
    /\ Len(sow_text.s) > TEXT_LIMIT
    /\ response_format = "json_object"
    /\ Len(request[1].value.s) = TEXT_LIMIT

C17_RaisesValueError ==
    ( /\ response_format # "none"
      /\ \/ llm_choice # OPENAI /\ llm_choice # GEMINI
         \/ module = "agents" /\ llm_choice = OPENAI /\ ~openai_client
         \/ module = "agents" /\ llm_choice = GEMINI /\ ~gemini_model )
    => exception = "ValueError"

\* C18: for every document that is absent, empty or carries an error marker, both
\* generators return their fixed refusal message without invoking the backend,
\* and one generator short-circuits exactly when the other does.
C18_GeneratorShortCircuit ==
    (module = "agents" /\ operation \in {"analyze", "propose"}) =>
        /\ (structured = JNull \/ structured = JObj(EmptyDict)
                \/ "error" \in DOMAIN structured.d) =>
               /\ response_format = "none"
               /\ request = NoRequest
               /\ generated = PlainText(IF operation = "analyze" THEN ANALYSIS_REFUSAL
                                        ELSE PROPOSAL_REFUSAL)
        /\ analysis_guard(structured) <=> proposal_guard(structured)

\* C19: for every document text and every value the backend call can return,
\* data_extraction_agent_run returns an outcome value and never raises.
C19_NothingThrows ==
    Extraction =>
        /\ exception = "none"
        /\ \/ "error" \in DOMAIN extracted
           \/ SchemaFieldSet \subseteq DOMAIN extracted

C19_Witness ==
    /\ Extraction
    /\ response_content = NoneContent
    /\ exception = "none"
    /\ extracted = [error |-> JStr(UNEXPECTED \o JSON_MUST_BE_STR)]

\* C20: the proposal generator interpolates the fragment it renders for every
\* list field into the sections of the user prompt it sends.
C20_FragmentsInterpolated ==
    (operation = "propose" /\ request # NoRequest) =>
        LET rendered == proposal_fragments(structured.d)
        IN  \A k \in DOMAIN rendered :
                \E text \in SectionTexts(request) : IsSubstring(rendered[k], text)

\* the fixed fallback sentence of each list field
FallbackOf ==
    [objectives |-> OBJECTIVES_DEFAULT, scope_of_work |-> SCOPE_DEFAULT,
     out_of_scope |-> OUT_OF_SCOPE_DEFAULT, deliverables |-> DELIVERABLES_DEFAULT,
     technical_requirements |-> TECHNICAL_DEFAULT, key_constraints |-> CONSTRAINTS_DEFAULT,
     stakeholders |-> STAKEHOLDERS_DEFAULT, timeline_overview |-> TIMELINE_DEFAULT]

\* the strings strs occur in text one after the other
RECURSIVE ContainsInOrder(_, _)
ContainsInOrder(strs, text) ==
    IF strs = <<>> THEN TRUE
    ELSE \E i \in 0..(Len(text) - Len(Head(strs))) :
             /\ \A j \in 1..Len(Head(strs)) : text[i + j] = Head(strs)[j]
             /\ ContainsInOrder(Tail(strs), SubSeq(text, i + Len(Head(strs)) + 1, Len(text)))

\* the texts of the elements of a list field: its strings, and for the
\* deliverables the name and the description of each
RECURSIVE NamesAndDescriptions(_)
NamesAndDescriptions(items) ==
    IF items = <<>> THEN <<>>
    ELSE <<Head(items).d["name"].s, Head(items).d["description"].s>>
             \o NamesAndDescriptions(Tail(items))
ElementTexts(k, x) == IF k = "deliverables" THEN NamesAndDescriptions(x.l) ELSE strings_of(x)

\* every list field of the document is absent or a list of strings, deliverables
\* a list of objects with a name and a description that are strings
IsStructuredDocument(d) ==
    /\ \A k \in ListFieldSet : k \in DOMAIN d => IsListOfStrings(d[k])
    /\ "deliverables" \in DOMAIN d =>
           /\ isinstance_list(d["deliverables"])
           /\ \A i \in 1..Len(d["deliverables"].l) :
                  LET item == d["deliverables"].l[i]
                  IN  /\ HasNameAndDescription(item)
                      /\ isinstance_str(item.d["name"])
                      /\ isinstance_str(item.d["description"])

\* C21: for each list field of the document the proposal generator renders, an
\* empty or absent field renders to that field's fallback sentence, the fallbacks
\* being distinct per field; a non-empty field renders to a fragment containing
\* every element in order; and no field renders to a blank fragment.
C21_FallbackSubstitution ==
    (module = "agents" /\ operation = "propose" /\ request # NoRequest
         /\ IsStructuredDocument(structured.d)) =>
        LET rendered == proposal_fragments(structured.d)
        IN  /\ \A k \in DOMAIN rendered :
                   /\ (k \notin DOMAIN structured.d \/ structured.d[k].l = <<>>) =>
                          rendered[k] = FallbackOf[k]
                   /\ (k \in DOMAIN structured.d /\ structured.d[k].l # <<>>) =>
                          ContainsInOrder(ElementTexts(k, structured.d[k]), rendered[k])
                   /\ rendered[k] # <<>>
            /\ \A j, k \in DOMAIN FallbackOf : j # k => FallbackOf[j] # FallbackOf[k]

\* C22: after analysis_agent_run or proposal_generation_agent_run returns,
\* short-circuit or not, the document passed in is as it was passed: no field
\* added, removed or changed.
C22_DocumentNotMutated ==
    (module = "agents" /\ operation \in {"analyze", "propose"}) =>
        structured_after = structured

C22_Witness ==
    /\ module = "agents"
    /\ operation = "propose"
    /\ response_format = "text"
    /\ isinstance_dict(structured)
    /\ "client_name" \notin DOMAIN structured.d
    /\ structured_after = structured

\* C23: the number of backend calls made in one run of the application is the
\* one call of the action that triggered it: one for a click of Analyze, one
\* for a click of Generate Proposal Draft, one for a run that shows the summary,
\* none otherwise.
C23_OneCallPerAction ==
    ~run.stopped =>
        run.backend_calls =
            IF run.trigger \in {"analyze", "proposal"} \/ run.dashboard THEN 1 ELSE 0

\* C24: when the backend call made for a proposal draft fails, the application
\* does not store the returned "Error: <message>" string as the proposal draft
\* and does not report that the draft was generated.
C24_FailedDraftNotStored ==
    (run.trigger = "proposal" /\ run.proposal_outcome.raises) =>
        /\ session.proposal_draft # ErrorString("text", run.proposal_outcome.msg)
        /\ ~run.reported_generated

\* C25: when extraction returns a failed outcome, the Analyze handler shows that
\* outcome's failure message and clears the stored structured data, the run
\* completes without raising, and no dashboard, summary or proposal section is
\* rendered from the failed outcome.
C25_FailedExtractionHandled ==
    (run.trigger = "analyze" /\ run.extraction # Absent
         /\ "error" \in DOMAIN run.extraction.d) =>
        /\ run.error_shown = run.extraction.d["error"]
        /\ session.sow_structured_data = JNull
        /\ run.raised = "none"
        /\ ~run.dashboard
        /\ run.analysis_input = Absent
        /\ run.proposal_input = Absent
        /\ ~run.draft_shown

\* C26: in the application the generators are invoked only with the structured
\* document held in session state, and only when it carries no error marker.
C26_GeneratorsGuarded ==
    \A input \in {run.analysis_input, run.proposal_input} \ {Absent} :
        /\ input = session.sow_structured_data
        /\ isinstance_dict(input)
        /\ "error" \notin DOMAIN input.d

\* C27: for every document text and every backend response, the
\* data_extraction_agent_run of llm_agents.py returns what the one of
\* agents/data_extraction_agent.py returns.
C27_SameOutcome ==
    Extraction =>
        LET other == llm_agents_data_extraction_agent_run(
                         sow_text, llm_choice, openai_client, gemini_model, provider_outcome)
        IN  /\ other.exception = exception
            /\ other.value = extracted

\* C28: the dashboard and the summary the application shows, and the proposal
\* draft it shows, derive from the file that is in the uploader.
C28_DerivesFromCurrentUpload ==
    /\ run.dashboard => provenance.sow_structured_data = uploaded_file
    /\ run.draft_shown => provenance.proposal_draft = uploaded_file

\* C29: on every document data_extraction_agent_run returns without an error
\* marker, the generators build their prompts without raising: every list field
\* is a list of strings, every deliverable an object with a name and a
\* description, and the document is serialised into the prompt.
C29_GeneratorsAcceptExtracted ==
    (module = "agents" /\ operation \in {"analyze", "propose"}
         /\ "error" \notin DOMAIN extracted) =>
        /\ structured = JObj(extracted)
        /\ exception = "none"
        /\ request # NoRequest
        /\ \E i \in 1..Len(request) :
               request[i].how = "json" /\ request[i].value = structured
        /\ \A k \in ListFieldSet : IsListOfStrings(extracted[k])
        /\ isinstance_list(extracted["deliverables"])
        /\ \A i \in 1..Len(extracted["deliverables"].l) :
               HasNameAndDescription(extracted["deliverables"].l[i])

C29_Witness ==
    /\ module = "agents"
    /\ operation = "propose"
    /\ "error" \notin DOMAIN extracted
    /\ extracted["deliverables"] =
           JList(<<JObj([name |-> JStr(T_REPORT), description |-> JStr(NOT_DETAILED)])>>)
    /\ structured = JObj(extracted)
    /\ request # NoRequest
    /\ exception = "none"

\* the state part of C30
HandlesKept ==
    /\ \A choice \in Choices, api_key \in BOOLEAN :
           LET after == initialize_llm_clients(choice, api_key, openai_client, gemini_model)
           IN  /\ (after.raised = "ValueError") <=> ~(choice \in {OPENAI, GEMINI} /\ api_key)
               /\ after.raised # "none" =>
                      /\ after.openai_client = openai_client
                      /\ after.gemini_model = gemini_model
               /\ after.raised = "none" =>
                      /\ choice = OPENAI => after.openai_client
                      /\ choice = GEMINI => after.gemini_model
               /\ choice # OPENAI => after.openai_client = openai_client
               /\ choice # GEMINI => after.gemini_model = gemini_model
    /\ (module = "agents" /\ response_format # "none") =>
           /\ (llm_choice = OPENAI /\ ~openai_client) =>
                  /\ provider_outcome = NotReached
                  /\ response_content = ErrorString(response_format, OPENAI_NOT_INIT)
           /\ (llm_choice = GEMINI /\ ~gemini_model) =>
                  /\ provider_outcome = NotReached
                  /\ response_content = ErrorString(response_format, GEMINI_NOT_INIT)

====
